---- MODULE Spec2Model ----
(***************************************************************************)
(* Model of pipeline/rpc/client.go: the resilient rpc Client.              *)
(*                                                                         *)
(* The Client holds one jsonrpc2 connection (conn), a closed flag (done),  *)
(* a retry budget (retry) and a backoff, and embeds a sync.Mutex.  The     *)
(* goroutines of the worker share one Client.  Every method is modelled    *)
(* step by step: one action per blocking step or per access to the shared  *)
(* state, so that the interleavings of concurrent goroutines are those of  *)
(* the Go program.                                                         *)
(*                                                                         *)
(* The transport (websocket dial, jsonrpc2.Conn) is outside the file; it   *)
(* is modelled at its boundary:                                            *)
(*   - Dial either yields a fresh connection or fails with an error;       *)
(*   - a connection is "open", "dropped" (the peer or the network ended    *)
(*     it) or "closed" (Conn.Close() was called on it);                    *)
(*   - Conn.Call on an open connection succeeds or fails with an           *)
(*     application error; on a dropped or closed connection it fails with  *)
(*     jsonrpc2.ErrClosed or io.ErrUnexpectedEOF;                          *)
(*   - Conn.Close on an open connection returns nil, on a connection that  *)
(*     is already shut down or closing it returns jsonrpc2.ErrClosed;      *)
(*   - a method called on a nil *jsonrpc2.Conn panics (nil dereference),   *)
(*     and the panic ends the program;                                     *)
(*   - the server applies a request it answers with success; when the      *)
(*     connection goes down while a request waits for its answer, the      *)
(*     server may or may not have applied it.                              *)
(*                                                                         *)
(* call() and Close() read t.conn without holding the mutex while open()   *)
(* writes it under the mutex.  The read is its own atomic step, so it may  *)
(* fall before or after any install of a concurrent open(): both outcomes  *)
(* of the race are explored.                                               *)
(***************************************************************************)
EXTENDS Integers, Sequences, FiniteSets, TLC

-----------------------------------------------------------------------------
(* Bounds of the model *)

\* largest retry budget a Client is constructed with (WithRetry option)
MaxRetry == 2
\* number of operations the goroutines start on the Client, all together
MaxOps == 3
\* the backoff of the Client, in clock ticks (WithBackoff option)
Backoff == 2
\* number of operations the goroutines start in the behaviours checked for
\* liveness
LiveOps == 2

\* the default budget, defaultRetryClount = math.MaxInt32: more attempts
\* than the loop of openRetry ever counts
Unbounded == MaxRetry + 1

\* the goroutines; the first one also runs NewClient
Procs == {"g1", "g2"}
Constructor == "g1"

-----------------------------------------------------------------------------
(* Values *)

Nil == "nil"
ErrClosed == "ErrClosed"                \* jsonrpc2.ErrClosed
ErrUnexpectedEOF == "ErrUnexpectedEOF"  \* io.ErrUnexpectedEOF
EOF == "EOF"                            \* io.EOF
ErrApp == "ErrApp"                      \* an error returned by the remote side
ErrDial == "ErrDial"                    \* a dial failure other than io.EOF

\* the errors call() treats as connectivity errors
ConnErrs == {ErrClosed, ErrUnexpectedEOF}
\* the other errors Conn.Call can return
AppErrs == {ErrApp}
\* the errors websocket.DefaultDialer.Dial can return; a handshake cut short
\* by the peer surfaces as io.EOF
DialErrs == {ErrDial, EOF}

Free == "free"

VARIABLES
  \* fields of Client
  conn,        \* t.conn: 0 is nil, otherwise the index of a connection in chans
  done,        \* t.done
  retry,       \* t.retry
  lock,        \* the embedded sync.Mutex: Free or the goroutine holding it
  \* the transport
  chans,       \* sequence of connection states, in dial order
  \* the program
  constructed, \* "no" while NewClient runs, then "ok" (err == nil) or "err"
  crashed,     \* a nil dereference panicked: the program is gone
  \* the goroutines
  pc,          \* position of each goroutine
  op,          \* the operation a goroutine runs, or ran last
  i,           \* loop counter of openRetry
  res,         \* value returned by the last finished operation, else "none"
  ops,         \* number of operations started on the Client so far
  timer,       \* ticks left of the pending time.After(t.backoff)
  \* history of the running operation (observation only, never read by the
  \* actions to decide what the program does)
  sent,        \* the Conn.Call invocations of the current call: [ch, m], the
               \* connection used and the call whose name and req are passed
  first,       \* what the first Conn.Call of the current call returned
  dials,       \* number of Dial calls the current operation has made (not
               \* counted beyond MaxRetry + 1)
  inst,        \* the connection the current operation installed, 0 if none
  elapsed,     \* ticks since the current openRetry started its first open()
               \* (a lower bound: only ticks that some goroutine waits on
               \* are counted)
  orret,       \* what the openRetry of the current operation returned
  done0,       \* t.done when the current operation started
  closed0,     \* whether a Close() had returned when the operation started
  inflight,    \* the call was waiting on the network when t.done was set
  conc,        \* goroutines whose call was reconnecting when this one failed
  applied,     \* how many times the server has applied the request of the
               \* current call
  closed       \* some Close() has returned

cliVars == <<conn, done, retry, lock>>
histVars == <<sent, first, dials, inst, elapsed, orret, done0, closed0,
              inflight, conc, applied, closed>>
vars == <<conn, done, retry, lock, chans, constructed, crashed, pc, op,
          i, res, ops, timer, sent, first, dials, inst,
          elapsed, orret, done0, closed0, inflight, conc, applied, closed>>

-----------------------------------------------------------------------------
(* Helpers *)

Set(f, p, v) == [f EXCEPT ![p] = v]

\* elapsed saturates here: "at least MaxRetry backoffs have passed"
ElapsedCap == MaxRetry * Backoff

InOpenRetry(p) == pc[p] \in {"or_loop", "open", "dial", "sleep"}
                  /\ op[p] \in {"NewClient", "call"}

\* a goroutine may start an operation on a Client that NewClient returned
\* without error
CanStart(p) ==
  /\ ~crashed
  /\ constructed = "ok"
  /\ pc[p] = "idle"
  /\ ops < MaxOps

\* what Conn.Call returns on a connection in state st
CallOutcomes(st) ==
  CASE st = "open"    -> {Nil} \cup AppErrs
    [] st = "dropped" -> ConnErrs
    [] st = "closed"  -> {ErrClosed}

\* the goroutines whose Conn.Call is waiting for its answer on connection c
InFlightOn(c) ==
  {p \in Procs : pc[p] \in {"wait1", "wait2"} /\ sent[p][Len(sent[p])].ch = c}

\* connection c goes down: the server may or may not have applied a request
\* that is waiting for its answer on c
GoesDown(c) ==
  \E a \in [InFlightOn(c) -> {0, 1}] :
    applied' = [p \in Procs |->
      IF p \in InFlightOn(c) THEN applied[p] + a[p] ELSE applied[p]]

\* what Conn.Close returns on a connection in state st
CloseOutcome(st) == IF st = "open" THEN Nil ELSE ErrClosed

\* the state of the goroutine-local history at the start of an operation
StartHist(p) ==
  /\ sent' = Set(sent, p, <<>>)
  /\ first' = Set(first, p, "none")
  /\ dials' = Set(dials, p, 0)
  /\ inst' = Set(inst, p, 0)
  /\ elapsed' = Set(elapsed, p, 0)
  /\ orret' = Set(orret, p, "none")
  /\ done0' = Set(done0, p, done)
  /\ closed0' = Set(closed0, p, closed)
  /\ inflight' = Set(inflight, p, FALSE)
  /\ conc' = [q \in Procs |-> IF q = p THEN {} ELSE conc[q] \ {p}]
  /\ applied' = Set(applied, p, 0)
  /\ UNCHANGED closed

-----------------------------------------------------------------------------
(* Initial state: NewClient has built the Client value and applied the      *)
(* options (lines 60-67); its openRetry (line 68) is about to run.         *)

Init ==
  /\ conn = 0
  /\ done = FALSE
  /\ retry \in 0..MaxRetry
  /\ lock = Free
  /\ chans = <<>>
  /\ constructed = "no"
  /\ crashed = FALSE
  /\ pc = [p \in Procs |-> IF p = Constructor THEN "or_loop" ELSE "idle"]
  /\ op = [p \in Procs |-> IF p = Constructor THEN "NewClient" ELSE "none"]
  /\ i = [p \in Procs |-> 0]
  /\ res = [p \in Procs |-> "none"]
  /\ ops = 0
  /\ timer = [p \in Procs |-> 0]
  /\ sent = [p \in Procs |-> <<>>]
  /\ first = [p \in Procs |-> "none"]
  /\ dials = [p \in Procs |-> 0]
  /\ inst = [p \in Procs |-> 0]
  /\ elapsed = [p \in Procs |-> 0]
  /\ orret = [p \in Procs |-> "none"]
  /\ done0 = [p \in Procs |-> FALSE]
  /\ closed0 = [p \in Procs |-> FALSE]
  /\ inflight = [p \in Procs |-> FALSE]
  /\ conc = [p \in Procs |-> {}]
  /\ applied = [p \in Procs |-> 0]
  /\ closed = FALSE

-----------------------------------------------------------------------------
(* openRetry and open *)

\* OrReturn with call() dropping the error of openRetry: the replay is
\* issued whatever openRetry returned
OrReturn_IgnoreErr(p, e) ==
  /\ orret' = Set(orret, p, e)
  /\ elapsed' = Set(elapsed, p, 0)
  /\ IF op[p] = "NewClient"
       THEN /\ constructed' = (IF e = Nil THEN "ok" ELSE "err")
            /\ pc' = Set(pc, p, "idle")
            /\ res' = Set(res, p, e)
       ELSE /\ UNCHANGED <<constructed, res>>
            /\ pc' = Set(pc, p, "call2")

\* the return statement of openRetry: control goes back to its caller,
\* NewClient (lines 68-69: return cli, err) or call (lines 124-127: return
\* the error, or go on to the replay)
OrReturn(p, e) ==
  /\ orret' = Set(orret, p, e)
  /\ elapsed' = Set(elapsed, p, 0)
  /\ IF op[p] = "NewClient"
       THEN /\ constructed' = (IF e = Nil THEN "ok" ELSE "err")
            /\ pc' = Set(pc, p, "idle")
            /\ res' = Set(res, p, e)
       ELSE /\ UNCHANGED constructed
            /\ IF e # Nil
                 THEN /\ pc' = Set(pc, p, "idle")
                      /\ res' = Set(res, p, e)
                 ELSE /\ pc' = Set(pc, p, "call2")
                      /\ UNCHANGED res

\* LoopTest with an error returned once the budget is used up
LoopTest_ExhaustedError(p, k) ==
  /\ i' = Set(i, p, k)
  /\ UNCHANGED timer
  /\ IF k < retry
       THEN /\ pc' = Set(pc, p, "open")
            /\ elapsed' = Set(elapsed, p, IF k = 0 THEN 0 ELSE elapsed[p])
            /\ UNCHANGED <<constructed, res, orret>>
       ELSE OrReturn(p, ErrDial)

\* LoopTest with the test i <= t.retry: one attempt more than the budget
LoopTest_OneMore(p, k) ==
  /\ i' = Set(i, p, k)
  /\ UNCHANGED timer
  /\ IF k <= retry
       THEN /\ pc' = Set(pc, p, "open")
            /\ elapsed' = Set(elapsed, p, IF k = 0 THEN 0 ELSE elapsed[p])
            /\ UNCHANGED <<constructed, res, orret>>
       ELSE OrReturn(p, Nil)

\* the head of the loop of openRetry with i = k: i < t.retry enters the
\* body, which calls t.open() (lines 134-135); otherwise the loop ends and
\* openRetry returns nil (line 144)
LoopTest(p, k) ==
  /\ i' = Set(i, p, k)
  /\ UNCHANGED timer
  /\ IF k < retry
       THEN /\ pc' = Set(pc, p, "open")
            /\ elapsed' = Set(elapsed, p, IF k = 0 THEN 0 ELSE elapsed[p])
            /\ UNCHANGED <<constructed, res, orret>>
       ELSE OrReturn(p, Nil)

\* openRetry is entered: for i := 0; ... (line 134)
OrLoop(p) ==
  /\ ~crashed
  /\ pc[p] = "or_loop"
  /\ LoopTest(p, 0)
  /\ UNCHANGED <<cliVars, chans, crashed, op, ops, sent, first, dials, inst,
                 done0, closed0, inflight, conc, closed, applied>>

\* OpenDone with io.EOF handled like any other error of open()
OpenDone_EOFRetries(p, e) ==
  IF op[p] = "open"
    THEN /\ pc' = Set(pc, p, "idle")
         /\ res' = Set(res, p, e)
         /\ UNCHANGED <<constructed, orret, elapsed, timer, i>>
    ELSE IF e = Nil
      THEN /\ OrReturn(p, e)
           /\ UNCHANGED <<timer, i>>
      ELSE /\ timer' = Set(timer, p, Backoff)
           /\ pc' = Set(pc, p, "sleep")
           /\ UNCHANGED <<constructed, res, orret, elapsed, i>>

\* open() returns e.  To a goroutine that called open() itself that is the
\* result; in openRetry nil breaks out of the loop, io.EOF is returned, and
\* any other error starts the backoff wait (lines 135-142)
OpenDone(p, e) ==
  IF op[p] = "open"
    THEN /\ pc' = Set(pc, p, "idle")
         /\ res' = Set(res, p, e)
         /\ UNCHANGED <<constructed, orret, elapsed, timer, i>>
    ELSE IF e = Nil \/ e = EOF
      THEN /\ OrReturn(p, e)
           /\ UNCHANGED <<timer, i>>
      ELSE /\ timer' = Set(timer, p, Backoff)
           /\ pc' = Set(pc, p, "sleep")
           /\ UNCHANGED <<constructed, res, orret, elapsed, i>>

\* OpenEnter without the check of t.done
OpenEnter_NoDoneCheck(p) ==
  /\ ~crashed
  /\ pc[p] = "open"
  /\ lock = Free
  /\ lock' = p
  /\ pc' = Set(pc, p, "dial")
  /\ UNCHANGED <<conn, done, retry, chans, constructed, crashed, op, i, res,
                 ops, timer, histVars>>

\* OpenEnter that does not wait for the mutex
OpenEnter_NoLock(p) ==
  /\ ~crashed
  /\ pc[p] = "open"
  /\ IF done
       THEN /\ OpenDone(p, EOF)
            /\ UNCHANGED lock
       ELSE /\ lock' = p
            /\ pc' = Set(pc, p, "dial")
            /\ UNCHANGED <<constructed, res, orret, elapsed, timer, i>>
  /\ UNCHANGED <<conn, done, retry, chans, crashed, op, ops, sent, first,
                 dials, inst, done0, closed0, inflight, conc, closed, applied>>

\* open(): t.Lock(); defer t.Unlock(); if t.done { return io.EOF }
\* (lines 150-154).  With done set the mutex is taken and released within
\* the step; otherwise it stays held for the dial.
OpenEnter(p) ==
  /\ ~crashed
  /\ pc[p] = "open"
  /\ lock = Free
  /\ IF done
       THEN /\ OpenDone(p, EOF)
            /\ UNCHANGED lock
       ELSE /\ lock' = p
            /\ pc' = Set(pc, p, "dial")
            /\ UNCHANGED <<constructed, res, orret, elapsed, timer, i>>
  /\ UNCHANGED <<conn, done, retry, chans, crashed, op, ops, sent, first,
                 dials, inst, done0, closed0, inflight, conc, closed, applied>>

\* conn, _, err := websocket.DefaultDialer.Dial(t.endpoint, nil); on an
\* error it is returned, otherwise t.conn = jsonrpc2.NewConn(...) and nil
\* is returned; the deferred Unlock (lines 155-161)
OpenDial(p) ==
  /\ ~crashed
  /\ pc[p] = "dial"
  /\ lock = p
  /\ \E e \in {Nil} \cup DialErrs :
       /\ IF e = Nil
            THEN /\ chans' = Append(chans, "open")
                 /\ conn' = Len(chans) + 1
                 /\ inst' = Set(inst, p, Len(chans) + 1)
            ELSE UNCHANGED <<chans, conn, inst>>
       /\ OpenDone(p, e)
  /\ dials' = Set(dials, p, IF dials[p] <= MaxRetry THEN dials[p] + 1
                                                     ELSE dials[p])
  /\ lock' = Free
  /\ UNCHANGED <<done, retry, crashed, op, ops, sent, first, done0, closed0,
                 inflight, conc, closed, applied>>

\* OrWake that does not wait for the timer
OrWake_NoWait(p) ==
  /\ ~crashed
  /\ pc[p] = "sleep"
  /\ LoopTest(p, i[p] + 1)
  /\ UNCHANGED <<cliVars, chans, crashed, op, ops, sent, first, dials, inst,
                 done0, closed0, inflight, conc, closed, applied>>

\* <-time.After(t.backoff) delivers (line 142), then i++ and the head of
\* the loop (line 134); the model stops counting i at MaxRetry, which only
\* the unbounded budget lets it reach
OrWake(p) ==
  /\ ~crashed
  /\ pc[p] = "sleep"
  /\ timer[p] = 0
  /\ LoopTest(p, IF i[p] < MaxRetry THEN i[p] + 1 ELSE MaxRetry)
  /\ UNCHANGED <<cliVars, chans, crashed, op, ops, sent, first, dials, inst,
                 done0, closed0, inflight, conc, closed, applied>>

\* one tick of wall-clock time passes for every goroutine
Tick ==
  /\ ~crashed
  /\ \E p \in Procs : timer[p] > 0
  /\ timer' = [p \in Procs |-> IF timer[p] > 0 THEN timer[p] - 1 ELSE 0]
  /\ elapsed' = [p \in Procs |->
       IF InOpenRetry(p) /\ elapsed[p] < ElapsedCap
         THEN elapsed[p] + 1 ELSE elapsed[p]]
  /\ UNCHANGED <<cliVars, chans, constructed, crashed, pc, op, i, res, ops,
                 sent, first, dials, inst, orret, done0, closed0, inflight,
                 conc, closed, applied>>

\* a goroutine calls open() on its own
StartOpen(p) ==
  /\ CanStart(p)
  /\ op' = Set(op, p, "open")
  /\ pc' = Set(pc, p, "open")
  /\ ops' = ops + 1
  /\ res' = Set(res, p, "none")
  /\ StartHist(p)
  /\ UNCHANGED <<cliVars, chans, constructed, crashed, i, timer>>

-----------------------------------------------------------------------------
(* call: the five Peer methods all go through it (lines 73-106) *)

\* Next / Notify / Update / Log / Save enter call(name, res)
StartCall(p) ==
  /\ CanStart(p)
  /\ op' = Set(op, p, "call")
  /\ pc' = Set(pc, p, "call1")
  /\ ops' = ops + 1
  /\ res' = Set(res, p, "none")
  /\ StartHist(p)
  /\ UNCHANGED <<cliVars, chans, constructed, crashed, i, timer>>

\* t.conn.Call(context.Background(), name, res) is entered: t.conn is
\* read without the mutex and the request goes out on that connection
\* (line 119 for the first attempt, line 127 for the replay).  A nil t.conn
\* panics.
CallSend(p) ==
  /\ ~crashed
  /\ pc[p] \in {"call1", "call2"}
  /\ IF conn = 0
       THEN /\ crashed' = TRUE
            /\ pc' = Set(pc, p, "panic")
            /\ UNCHANGED sent
       ELSE /\ sent' = Set(sent, p,
                 Append(sent[p], [ch |-> conn, m |-> p]))
            /\ pc' = Set(pc, p, IF pc[p] = "call1" THEN "wait1" ELSE "wait2")
            /\ UNCHANGED crashed
  /\ UNCHANGED <<cliVars, chans, constructed, op, i, res, ops,
                 timer, first, dials, inst, elapsed, orret, done0, closed0,
                 inflight, conc, closed, applied>>

\* goroutines whose call failed with a connectivity error and has not yet
\* issued its replay
Reconnecting(q) ==
  /\ op[q] = "call"
  /\ first[q] \in ConnErrs
  /\ pc[q] \in {"or_loop", "open", "dial", "sleep", "call2"}

\* CallDone1 with every error treated as a connectivity error
CallDone1_RetryAny(p) ==
  /\ ~crashed
  /\ pc[p] = "wait1"
  /\ \E e \in CallOutcomes(chans[sent[p][1].ch]) :
       /\ first' = Set(first, p, e)
       /\ applied' = Set(applied, p, applied[p] + IF e = Nil THEN 1 ELSE 0)
       /\ IF e = Nil
            THEN /\ pc' = Set(pc, p, "idle")
                 /\ res' = Set(res, p, e)
                 /\ UNCHANGED <<i, conc>>
            ELSE /\ pc' = Set(pc, p, "or_loop")
                 /\ i' = Set(i, p, 0)
                 /\ conc' = [q \in Procs |->
                      IF q = p THEN {r \in Procs \ {p} : Reconnecting(r)}
                      ELSE IF Reconnecting(q) THEN conc[q] \cup {p}
                      ELSE conc[q]]
                 /\ UNCHANGED res
  /\ UNCHANGED <<cliVars, chans, constructed, crashed, op, ops,
                 timer, sent, dials, inst, elapsed, orret, done0, closed0,
                 inflight, closed>>

\* CallDone1 with no reconnect: a connectivity error is returned like any
\* other error
CallDone1_NoReconnect(p) ==
  /\ ~crashed
  /\ pc[p] = "wait1"
  /\ \E e \in CallOutcomes(chans[sent[p][1].ch]) :
       /\ first' = Set(first, p, e)
       /\ applied' = Set(applied, p, applied[p] + IF e = Nil THEN 1 ELSE 0)
       /\ pc' = Set(pc, p, "idle")
       /\ res' = Set(res, p, e)
  /\ UNCHANGED <<cliVars, chans, constructed, crashed, op, ops, i, conc,
                 timer, sent, dials, inst, elapsed, orret, done0, closed0,
                 inflight, closed>>

\* the first Conn.Call returns (lines 119-126): nil is returned, an error
\* other than ErrClosed and ErrUnexpectedEOF is returned as it is, a
\* connectivity error enters openRetry
CallDone1(p) ==
  /\ ~crashed
  /\ pc[p] = "wait1"
  /\ \E e \in CallOutcomes(chans[sent[p][1].ch]) :
       /\ first' = Set(first, p, e)
       /\ applied' = Set(applied, p, applied[p] + IF e = Nil THEN 1 ELSE 0)
       /\ IF e = Nil \/ (e # ErrClosed /\ e # ErrUnexpectedEOF)
            THEN /\ pc' = Set(pc, p, "idle")
                 /\ res' = Set(res, p, e)
                 /\ UNCHANGED <<i, conc>>
            ELSE /\ pc' = Set(pc, p, "or_loop")
                 /\ i' = Set(i, p, 0)
                 /\ conc' = [q \in Procs |->
                      IF q = p THEN {r \in Procs \ {p} : Reconnecting(r)}
                      ELSE IF Reconnecting(q) THEN conc[q] \cup {p}
                      ELSE conc[q]]
                 /\ UNCHANGED res
  /\ UNCHANGED <<cliVars, chans, constructed, crashed, op, ops,
                 timer, sent, dials, inst, elapsed, orret, done0, closed0,
                 inflight, closed>>

\* CallDone2 with a failed replay entering openRetry again
CallDone2_RetryAgain(p) ==
  /\ ~crashed
  /\ pc[p] = "wait2"
  /\ \E e \in CallOutcomes(chans[sent[p][Len(sent[p])].ch]) :
       /\ applied' = Set(applied, p, applied[p] + IF e = Nil THEN 1 ELSE 0)
       /\ IF e \in ConnErrs
            THEN /\ pc' = Set(pc, p, "or_loop")
                 /\ i' = Set(i, p, 0)
                 /\ UNCHANGED res
            ELSE /\ pc' = Set(pc, p, "idle")
                 /\ res' = Set(res, p, e)
                 /\ UNCHANGED i
  /\ UNCHANGED <<cliVars, chans, constructed, crashed, op, ops, timer,
                 sent, first, dials, inst, elapsed, orret, done0, closed0,
                 inflight, conc, closed>>

\* the replay returns: return t.conn.Call(...) (line 127)
CallDone2(p) ==
  /\ ~crashed
  /\ pc[p] = "wait2"
  /\ \E e \in CallOutcomes(chans[sent[p][2].ch]) :
       /\ res' = Set(res, p, e)
       /\ applied' = Set(applied, p, applied[p] + IF e = Nil THEN 1 ELSE 0)
  /\ pc' = Set(pc, p, "idle")
  /\ UNCHANGED <<cliVars, chans, constructed, crashed, op, i, ops, timer,
                 sent, first, dials, inst, elapsed, orret, done0, closed0,
                 inflight, conc, closed>>

-----------------------------------------------------------------------------
(* Close *)

StartClose(p) ==
  /\ CanStart(p)
  /\ op' = Set(op, p, "Close")
  /\ pc' = Set(pc, p, "close")
  /\ ops' = ops + 1
  /\ res' = Set(res, p, "none")
  /\ StartHist(p)
  /\ UNCHANGED <<cliVars, chans, constructed, crashed, i, timer>>

\* CloseLock that sets t.done without taking the mutex
CloseLock_NoLock(p) ==
  /\ ~crashed
  /\ pc[p] = "close"
  /\ done' = TRUE
  /\ pc' = Set(pc, p, "close_conn")
  /\ inflight' = [q \in Procs |->
       IF pc[q] \in {"wait1", "wait2"} /\ ~done THEN TRUE ELSE inflight[q]]
  /\ UNCHANGED <<conn, retry, lock, chans, constructed, crashed, op,
                 i, res, ops, timer, sent, first, dials, inst, elapsed,
                 orret, done0, closed0, conc, closed, applied>>

\* t.Lock(); t.done = true; t.Unlock() (lines 110-112)
CloseLock(p) ==
  /\ ~crashed
  /\ pc[p] = "close"
  /\ lock = Free
  /\ done' = TRUE
  /\ pc' = Set(pc, p, "close_conn")
  /\ inflight' = [q \in Procs |->
       IF pc[q] \in {"wait1", "wait2"} /\ ~done THEN TRUE ELSE inflight[q]]
  /\ UNCHANGED <<conn, retry, lock, chans, constructed, crashed, op,
                 i, res, ops, timer, sent, first, dials, inst, elapsed,
                 orret, done0, closed0, conc, closed, applied>>

\* return t.conn.Close() (line 113): t.conn is read without the mutex; a
\* nil t.conn panics
CloseConn(p) ==
  /\ ~crashed
  /\ pc[p] = "close_conn"
  /\ IF conn = 0
       THEN /\ crashed' = TRUE
            /\ pc' = Set(pc, p, "panic")
            /\ UNCHANGED <<chans, res, closed, applied>>
       ELSE /\ chans' = [chans EXCEPT ![conn] =
                          IF @ = "open" THEN "closed" ELSE @]
            /\ IF chans[conn] = "open" THEN GoesDown(conn)
                                       ELSE UNCHANGED applied
            /\ res' = Set(res, p, CloseOutcome(chans[conn]))
            /\ closed' = TRUE
            /\ pc' = Set(pc, p, "idle")
            /\ UNCHANGED crashed
  /\ UNCHANGED <<cliVars, constructed, op, i, ops, timer, sent,
                 first, dials, inst, elapsed, orret, done0, closed0,
                 inflight, conc>>

-----------------------------------------------------------------------------
(* The environment *)

\* the peer or the network ends connection c
Drop(c) ==
  /\ ~crashed
  /\ c \in 1..Len(chans)
  /\ chans[c] = "open"
  /\ chans' = [chans EXCEPT ![c] = "dropped"]
  /\ GoesDown(c)
  /\ UNCHANGED <<cliVars, constructed, crashed, pc, op, i, res, ops, timer,
                 sent, first, dials, inst, elapsed, orret, done0, closed0,
                 inflight, conc, closed>>

-----------------------------------------------------------------------------

Next ==
  \/ \E p \in Procs : OrLoop(p)
  \/ \E p \in Procs : OpenEnter(p)
  \/ \E p \in Procs : OpenDial(p)
  \/ \E p \in Procs : OrWake(p)
  \/ Tick
  \/ \E p \in Procs : StartOpen(p)
  \/ \E p \in Procs : StartCall(p)
  \/ \E p \in Procs : CallSend(p)
  \/ \E p \in Procs : CallDone1(p)
  \/ \E p \in Procs : CallDone2(p)
  \/ \E p \in Procs : StartClose(p)
  \/ \E p \in Procs : CloseLock(p)
  \/ \E p \in Procs : CloseConn(p)
  \/ \E c \in 1..Len(chans) : Drop(c)

Spec == Init /\ [][Next]_vars

\* NewClient without WithRetry: the budget is defaultRetryClount
LiveInit ==
  /\ conn = 0
  /\ done = FALSE
  /\ retry = Unbounded
  /\ lock = Free
  /\ chans = <<>>
  /\ constructed = "no"
  /\ crashed = FALSE
  /\ pc = [p \in Procs |-> IF p = Constructor THEN "or_loop" ELSE "idle"]
  /\ op = [p \in Procs |-> IF p = Constructor THEN "NewClient" ELSE "none"]
  /\ i = [p \in Procs |-> 0]
  /\ res = [p \in Procs |-> "none"]
  /\ ops = 0
  /\ timer = [p \in Procs |-> 0]
  /\ sent = [p \in Procs |-> <<>>]
  /\ first = [p \in Procs |-> "none"]
  /\ dials = [p \in Procs |-> 0]
  /\ inst = [p \in Procs |-> 0]
  /\ elapsed = [p \in Procs |-> 0]
  /\ orret = [p \in Procs |-> "none"]
  /\ done0 = [p \in Procs |-> FALSE]
  /\ closed0 = [p \in Procs |-> FALSE]
  /\ inflight = [p \in Procs |-> FALSE]
  /\ conc = [p \in Procs |-> {}]
  /\ applied = [p \in Procs |-> 0]
  /\ closed = FALSE

\* The Go scheduler runs every goroutine that can take a step, a dial and
\* a backoff take finite time, and a goroutine that waits for a mutex that
\* stays free gets it: weak fairness of the steps of openRetry and open.
Fairness ==
  /\ WF_vars(Tick)
  /\ \A p \in Procs :
       /\ WF_vars(OrLoop(p))
       /\ WF_vars(OpenEnter(p))
       /\ WF_vars(OpenDial(p))
       /\ WF_vars(OrWake(p))

\* the steps of Next, with LiveOps operations started at most
LiveNext ==
  \/ \E p \in Procs : OrLoop(p)
  \/ \E p \in Procs : OpenEnter(p)
  \/ \E p \in Procs : OpenDial(p)
  \/ \E p \in Procs : OrWake(p)
  \/ Tick
  \/ \E p \in Procs : ops < LiveOps /\ StartOpen(p)
  \/ \E p \in Procs : ops < LiveOps /\ StartCall(p)
  \/ \E p \in Procs : CallSend(p)
  \/ \E p \in Procs : CallDone1(p)
  \/ \E p \in Procs : CallDone2(p)
  \/ \E p \in Procs : ops < LiveOps /\ StartClose(p)
  \/ \E p \in Procs : CloseLock(p)
  \/ \E p \in Procs : CloseConn(p)
  \/ \E c \in 1..Len(chans) : Drop(c)

LiveSpec == LiveInit /\ [][LiveNext]_vars /\ Fairness

TypeOK ==
  /\ conn \in 0..Len(chans)
  /\ done \in BOOLEAN
  /\ lock \in Procs \cup {Free}
  /\ \A c \in 1..Len(chans) : chans[c] \in {"open", "dropped", "closed"}
  /\ \A p \in Procs : i[p] \in 0..MaxRetry /\ timer[p] \in 0..Backoff
  /\ \A p \in Procs : dials[p] \in 0..(MaxRetry + 1) /\ applied[p] \in 0..2

-----------------------------------------------------------------------------
(* Properties *)

Returned(p) == pc[p] = "idle" /\ res[p] # "none"

\* C1 (P1, single retry): a call whose first network attempt fails with a
\* connectivity error issues at most two Conn.Call invocations in all, the
\* second one with the name and request of the first, whatever the replay
\* returns;
\* a second invocation happens only after such a failure.
P1SingleRetry ==
  \A p \in Procs :
    op[p] = "call" =>
      /\ Len(sent[p]) <= 2
      /\ Len(sent[p]) = 2 =>
           /\ first[p] \in ConnErrs
           /\ sent[p][2].m = sent[p][1].m
           /\ sent[p][1].m = p

\* a call has returned a connectivity error from its replay, after a first
\* attempt that failed with a connectivity error
P1Witness ==
  \E p \in Procs :
    /\ op[p] = "call" /\ Returned(p)
    /\ first[p] \in ConnErrs
    /\ Len(sent[p]) = 2
    /\ res[p] \in ConnErrs

\* C2 (P2, no retry on application error): a call whose first attempt fails
\* with an error that is neither ErrClosed nor ErrUnexpectedEOF has returned
\* that very error after exactly one Conn.Call, without entering openRetry:
\* no dial, no connection installed.
P2NoRetryOnAppError ==
  \A p \in Procs :
    (op[p] = "call" /\ first[p] \notin ConnErrs \cup {Nil, "none"}) =>
      /\ Returned(p)
      /\ res[p] = first[p]
      /\ Len(sent[p]) = 1
      /\ orret[p] = "none"
      /\ dials[p] = 0
      /\ inst[p] = 0

\* a call has returned the application error of its only attempt
P2Witness ==
  \E p \in Procs :
    /\ op[p] = "call" /\ Returned(p)
    /\ first[p] = ErrApp
    /\ res[p] = ErrApp
    /\ Len(sent[p]) = 1

\* C3 (P3, terminal close is absorbing): once t.done is set it stays set,
\* no goroutine is dialing, every open() that gets the mutex returns io.EOF
\* without a dial, the openRetry that called it returns this io.EOF to its
\* caller at once (no backoff), and t.conn is never assigned again.
P3TerminalAbsorbing ==
  [][ done =>
        /\ done'
        /\ conn' = conn
        /\ Len(chans') = Len(chans)
        /\ \A p \in Procs : dials'[p] <= dials[p]
        /\ \A p \in Procs :
             /\ pc'[p] # "dial"
             /\ (pc[p] = "open" /\ pc'[p] # "open") =>
                  /\ pc'[p] = "idle"
                  /\ res'[p] = EOF
                  /\ timer'[p] = 0
                  /\ op[p] # "open" => orret'[p] = EOF
    ]_vars

\* after a Close, a call's reconnect and an open() called on its own have
\* both returned io.EOF without dialing
P3Witness ==
  /\ done
  /\ \E p, q \in Procs :
       /\ op[p] = "call" /\ Returned(p) /\ done0[p]
       /\ orret[p] = EOF /\ res[p] = EOF /\ dials[p] = 0
       /\ op[q] = "open" /\ Returned(q) /\ done0[q]
       /\ res[q] = EOF /\ dials[q] = 0

\* C4 (P6, mutual exclusion under reconnect): when two calls that went out
\* on the same connection both fail with a connectivity error and reconnect
\* concurrently, at most one of them dials a new connection in, and both
\* issue their replay on the same connection.
P6OneReconnect ==
  \A p, q \in Procs :
    ( /\ p # q
      /\ q \in conc[p] /\ p \in conc[q]
      /\ op[p] = "call" /\ op[q] = "call"
      /\ Len(sent[p]) = 2 /\ Len(sent[q]) = 2
      /\ sent[p][1].ch = sent[q][1].ch ) =>
        /\ ~(inst[p] # 0 /\ inst[q] # 0)
        /\ sent[p][2].ch = sent[q][2].ch

\* C5 (P5, idempotent shutdown): a Close() invoked after another Close()
\* has returned leaves t.done set and the current connection released, as
\* the first did, and returns nil.
P5CloseIdempotent ==
  \A p \in Procs :
    (op[p] = "Close" /\ Returned(p) /\ closed0[p]) =>
      /\ done
      /\ chans[conn] # "open"
      /\ res[p] = Nil

P4BackoffHonored ==
  \A p \in Procs :
    (InOpenRetry(p) /\ pc[p] \in {"open", "dial"}) =>
      elapsed[p] >= i[p] * Backoff

\* an open() that follows a failed one is dialing, a full backoff after
\* the first open() of this openRetry started
P4Witness ==
  \E p \in Procs :
    /\ InOpenRetry(p) /\ pc[p] = "dial"
    /\ i[p] >= 1
    /\ dials[p] = i[p]
    /\ elapsed[p] >= i[p] * Backoff

\* C8 as stated (in-flight call versus shutdown): a call that was waiting on
\* the network when t.done was set does not return io.EOF; only calls
\* started after that do.
InFlightUnaffected ==
  \A p \in Procs :
    (op[p] = "call" /\ Returned(p) /\ inflight[p]) => res[p] # EOF

\* C8 as amended: a call that was waiting on the network when t.done was
\* set returns io.EOF only from the reconnect that follows a connectivity
\* error of its own first attempt; otherwise it returns what that attempt
\* or its replay returned.
InFlightAbortedByClose ==
  \A p \in Procs :
    (op[p] = "call" /\ Returned(p) /\ inflight[p]) =>
      /\ res[p] = EOF <=> orret[p] = EOF
      /\ res[p] = EOF => (first[p] \in ConnErrs /\ Len(sent[p]) = 1)
      /\ res[p] # EOF =>
           (res[p] \in CallOutcomes("open") \cup ConnErrs
            /\ (Len(sent[p]) = 1 => res[p] = first[p]))

\* a call in flight when Close() set t.done has returned io.EOF
InFlightWitness ==
  \E p \in Procs :
    /\ op[p] = "call" /\ Returned(p) /\ inflight[p]
    /\ ~done0[p]
    /\ res[p] = EOF

\* C9 (budget exhaustion is silent success): an openRetry whose t.retry
\* attempts all failed with an error other than io.EOF returns nil although
\* it installed no connection; NewClient then returns a nil error too.
ExhaustionIsSuccess ==
  \A p \in Procs :
    (op[p] \in {"NewClient", "call"} /\ orret[p] # "none" /\ i[p] = retry) =>
      /\ orret[p] = Nil
      /\ inst[p] = 0
      /\ dials[p] = retry
      /\ op[p] = "NewClient" => (constructed = "ok" /\ res[p] = Nil)

\* NewClient has returned a nil error after t.retry >= 1 failed dials
ExhaustionWitness ==
  \E p \in Procs :
    /\ op[p] = "NewClient" /\ Returned(p)
    /\ retry >= 1 /\ i[p] = retry /\ dials[p] = retry
    /\ res[p] = Nil
    /\ conn = 0

\* C10 (outage with exhausted budget): a call whose first attempt failed
\* with a connectivity error and whose openRetry used up a budget of at
\* least one dial without a successful one returns a connectivity error or
\* a dial error, never success.
ExhaustionSurfacesError ==
  \A p \in Procs :
    ( /\ op[p] = "call" /\ Returned(p)
      /\ first[p] \in ConnErrs
      /\ retry >= 1 /\ dials[p] = retry
      /\ orret[p] = Nil /\ i[p] = retry /\ inst[p] = 0 ) =>
        res[p] \in ConnErrs \cup DialErrs

\* C11 as stated (connectivity errors do not leak): a call whose openRetry
\* dialed a new connection in does not return ErrClosed or ErrUnexpectedEOF.
NoLeakAfterReconnect ==
  \A p \in Procs :
    (op[p] = "call" /\ Returned(p) /\ res[p] \in ConnErrs) => inst[p] = 0

\* C11 as amended: a call returns a connectivity error only as the result
\* of its replay: two Conn.Call invocations, the first failed with a
\* connectivity error, openRetry returned nil, and the connection the
\* replay went out on is no longer open.
ConnErrOnlyFromReplay ==
  \A p \in Procs :
    (op[p] = "call" /\ Returned(p) /\ res[p] \in ConnErrs) =>
      /\ Len(sent[p]) = 2
      /\ first[p] \in ConnErrs
      /\ orret[p] = Nil
      /\ chans[sent[p][2].ch] # "open"

\* a call has returned a connectivity error from a replay on the connection
\* its own openRetry had just installed
LeakWitness ==
  \E p \in Procs :
    /\ op[p] = "call" /\ Returned(p)
    /\ res[p] \in ConnErrs
    /\ inst[p] # 0
    /\ sent[p][2].ch = inst[p]

\* C12 (resource lifetime): at most one connection is alive at a time, a
\* connection being alive from its dial until it is closed or ended by the
\* peer; so open() installs a connection only over a released one.
AtMostOneAlive ==
  Cardinality({c \in 1..Len(chans) : chans[c] = "open"}) <= 1

\* C13 (replay applies once): when the first attempt of a call failed with
\* a connectivity error and its replay succeeded, the server has applied
\* the request exactly once.
ReplayAppliesOnce ==
  \A p \in Procs :
    ( /\ op[p] = "call" /\ Returned(p)
      /\ Len(sent[p]) = 2
      /\ first[p] \in ConnErrs
      /\ res[p] = Nil ) =>
        applied[p] = 1

\* C14 (open() is one critical section): a goroutine that is between the
\* check of t.done and the install of open() holds the mutex and t.done is
\* still false; so at most one dial is in progress at any instant, and
\* Close() cannot set t.done between the check and the install.
EstablishCriticalSection ==
  /\ Cardinality({p \in Procs : pc[p] = "dial"}) <= 1
  /\ \A p \in Procs : pc[p] = "dial" => (lock = p /\ ~done)

\* a goroutine is dialing, holding the mutex, while a Close() waits for it
CriticalSectionWitness ==
  \E p, q \in Procs :
    /\ pc[p] = "dial" /\ lock = p
    /\ pc[q] = "close"

\* C15 (lock discipline): every step that reads t.conn (the Conn.Call of
\* the first attempt and of the replay, the t.conn.Close() of Close) and
\* every step that assigns it is taken by the goroutine holding the mutex.
LockDiscipline ==
  [][ \A p \in Procs :
        /\ (pc[p] \in {"call1", "call2", "close_conn"} /\ pc'[p] # pc[p])
             => lock = p
        /\ (pc[p] = "dial" /\ conn' # conn) => lock = p
    ]_vars

\* C16 (retry budget is respected): one openRetry makes at most t.retry
\* calls of open(), none with t.retry = 0, and none after the open() that
\* installed a connection: it has then returned nil.
RetryBudgetRespected ==
  \A p \in Procs :
    op[p] \in {"NewClient", "call"} =>
      /\ dials[p] <= retry
      /\ i[p] <= retry
      /\ pc[p] \in {"open", "dial", "sleep"} => i[p] < retry
      /\ inst[p] # 0 =>
           (~InOpenRetry(p) /\ orret[p] = Nil /\ dials[p] = i[p] + 1)

\* the openRetry of a call has returned after its first open(), which
\* succeeded, with budget left
RetryBudgetWitness ==
  \E p \in Procs :
    /\ op[p] = "call" /\ orret[p] = Nil
    /\ inst[p] # 0
    /\ dials[p] = 1
    /\ retry > 1

\* C17 (terminal error means closed): openRetry returns io.EOF only when
\* t.done is set; a dial that fails, with io.EOF as with any other error,
\* is followed by the backoff and the next attempt.
TerminalMeansClosed ==
  \A p \in Procs :
    (op[p] \in {"NewClient", "call"} /\ orret[p] = EOF) => done

\* C18 (a channel exists whenever it is used): t.conn is not nil when a
\* goroutine is about to call t.conn.Call (first attempt or replay) or
\* t.conn.Close.
ChannelExistsWhenUsed ==
  \A p \in Procs :
    pc[p] \in {"call1", "call2", "close_conn"} => conn # 0

\* C19 (the retry loop terminates on shutdown): with the unbounded budget,
\* an openRetry that is running when t.done is set eventually returns, and
\* returns io.EOF to its caller.
TerminatesOnShutdown ==
  \A p \in Procs :
    (done /\ InOpenRetry(p)) ~> (pc[p] = "idle" /\ orret[p] = EOF)

\* t.done is set while an openRetry with the unbounded budget, whose dials
\* have failed more often than any bounded budget allows, waits for its
\* backoff
TerminatesWitness ==
  \E p \in Procs :
    /\ retry = Unbounded
    /\ done /\ InOpenRetry(p)
    /\ pc[p] = "sleep"
    /\ dials[p] > MaxRetry

\* C20 (the current channel is released by shutdown): once a Close() has
\* returned, t.done is set, t.conn is a connection that is closed or was
\* ended by the peer, and t.conn is never assigned again.
ReleasedByShutdown ==
  /\ [](closed => (done /\ conn # 0 /\ chans[conn] # "open"))
  /\ [][closed => conn' = conn]_vars

\* a Close() has returned after closing a connection that a reconnect had
\* installed, and an open() called after it has returned
ReleasedWitness ==
  /\ closed
  /\ conn >= 2 /\ chans[conn] = "closed"
  /\ \E p \in Procs : op[p] = "open" /\ Returned(p) /\ closed0[p]

====
